---- MODULE Spec2Model ----
(***************************************************************************)
(* A model of the kernel core of OS_1000_lines: the process table and the  *)
(* cooperative round-robin yield (process.c), the trap path and the        *)
(* system calls (trap.c), the virtio-blk request protocol (virtio.c) and   *)
(* the boot sequence of kernel_main (kernel.c).                            *)
(*                                                                         *)
(* The specifications share the variables:                                 *)
(*   Spec      kernel_main creates processes and yields; the processes run *)
(*             in user mode, trap, and are served by handle_trap;          *)
(*   SpecFs    the same kernel with the shell as its only user process and *)
(*             file system calls of every name, length and buffer;         *)
(*   SpecDisk  a kernel caller issues read_write_disk calls against a      *)
(*             device that serves the virtqueue;                           *)
(*   SpecDiskLive  the same with a device that serves every request;       *)
(*   SpecBoot  virtio_blk_init, one statement at a time;                   *)
(*   SpecVq    read_write_disk and virtq_kick one statement at a time,     *)
(*             the stores reaching the device in any order.                *)
(***************************************************************************)
EXTENDS Integers, Sequences, FiniteSets, TLC

(***************************************************************************)
(* Bounds of the model.                                                    *)
(***************************************************************************)
\* number of process slots (kernel.h: the size of procs[])
PROCS_MAX == 3
\* sizeof(file->data), in bytes
FILE_DATA_SIZE == 2
\* user code addresses are USER_BASE + 4*k, k in 0..MaxPc
MaxPc == 1
\* a sector's 512 bytes are one value drawn from 0..MaxBlock
MaxBlock == 1
\* capacity of the disk in sectors (read from the device configuration)
DiskSectors == 2
\* the caller of SpecDisk issues at most MaxCalls calls, and the processes
\* of Spec at most MaxCalls SYS_WRITEFILE calls (each one an fs_flush)
MaxCalls == 2

(***************************************************************************)
(* Program constants (kernel.h, common.h, virtio.h).  The system call      *)
(* numbers are distinct tags: the handlers only compare them.              *)
(***************************************************************************)
NULL == -1
USER_BASE == 16777216
SCAUSE_ECALL == 8
SYS_PUTCHAR == 1
SYS_GETCHAR == 2
SYS_EXIT == 3
SYS_READFILE == 4
SYS_WRITEFILE == 5
PROC_UNUSED == "UNUSED"
PROC_RUNNABLE == "RUNNABLE"
PROC_EXITED == "EXITED"
FILES_MAX == 2
SECTOR_SIZE == 512
VIRTQ_ENTRY_NUM == 16
VIRTIO_BLK_T_IN == 0
VIRTIO_BLK_T_OUT == 1
VIRTQ_DESC_F_NEXT == 1
VIRTQ_DESC_F_WRITE == 2
\* width of the uint16_t ring indices
U16 == 65536
\* bytes of a register
WORD == 4
\* words of the frame switch_context pushes and pops: ra, s0..s11
SWITCH_FRAME_WORDS == 13
\* words of the trap frame kernel_entry pushes
TRAP_FRAME_WORDS == 31
\* sizeof(proc->stack), and the bytes of struct process before its stack
STACK_SIZE == 8192
PROC_HEADER == 16
\* bytes of stack in use between the trap frame (or kernel_main's frame)
\* and the call of switch_context: the frames of handle_trap,
\* handle_syscall and yield
YieldDepth == 48

VARIABLES
    \* process.c
    procs,          \* procs[i]: [pid, state, sp, page_table]
    current_proc,   \* slot of the running process, NULL before boot sets it
    idle_proc,      \* slot of the idle process, NULL before boot sets it
    \* kernel.c
    kmain,          \* position of kernel_main
    \* CSRs
    sepc, scause, satp, sscratch,
    \* per process: where it executes or will resume, its user pc, the local
    \* user_pc of its handle_trap activation, its trap frame, the user
    \* memory its a1 points to
    kpc, upc, user_pc, frame, ubuf,
    frame_at,       \* per process: the address of its trap frame
    kmem,           \* the words written to the kernel stacks, by address
    \* fs
    files,          \* files[k]: [in_use, name, data, size]
    \* virtio.c: blk_req, blk_request_vq and the QUEUE_NOTIFY register
    virtio,
    disk,           \* the device's sectors
    \* the caller of read_write_disk (SpecDisk)
    rwd,            \* the active call: [pc, sector, is_write]
    buf, buf2,      \* the caller's write buffer and read buffer
    calls,          \* the caller's last two returned calls
    \* virtio.c: virtio_blk_init (SpecBoot)
    init_pc,        \* position of virtio_blk_init in its statements
    virtq_paddr,    \* the address alloc_pages returns to virtq_init
    regs,           \* the device's registers
    mmio,           \* the register accesses made so far, in order
    \* virtio.c: the request as the device sees it (SpecVq)
    devmem,         \* the driver's stores that have reached the device
    pending,        \* the locations stored to but not yet visible to it
    halted          \* "" or the PANIC message

procVars == <<procs, current_proc, idle_proc, kmain>>
csrVars == <<sepc, scause, satp, sscratch>>
ctxVars == <<kpc, upc, user_pc, frame, ubuf, frame_at, kmem>>
diskVars == <<virtio, disk>>
callerVars == <<rwd, buf, buf2, calls>>
bootVars == <<init_pc, virtq_paddr, regs, mmio>>
dmaVars == <<devmem, pending>>
vars == <<procs, current_proc, idle_proc, kmain, sepc, scause, satp, sscratch,
          kpc, upc, user_pc, frame, ubuf, frame_at, kmem, files, virtio, disk,
          rwd, buf, buf2, calls, init_pc, virtq_paddr, regs, mmio, devmem,
          pending, halted>>

Slots == 0 .. PROCS_MAX - 1
Bytes == {0, 1}
Blocks == 0 .. MaxBlock
UserPcs == {USER_BASE + 4 * k : k \in 0 .. MaxPc}
Min(S) == CHOOSE x \in S : \A y \in S : x <= y

(***************************************************************************)
(* virtio.c: the block device driver.  The driver's memory is one record,  *)
(*   virtio = [req, descs, avail_index, avail_ring, used_index,            *)
(*             last_used_index, notify]                                    *)
(* req is *blk_req, the next five fields are *blk_request_vq (used_index   *)
(* is vq->used.index, which the device writes), notify counts the writes   *)
(* to QUEUE_NOTIFY the device has not served yet.                          *)
(***************************************************************************)
Sectors == 0 .. DiskSectors - 1
ZeroDesc == [addr |-> "", len |-> 0, flags |-> 0, next |-> 0]

\* virtio_blk_init: the capacity read from the device configuration, in bytes
blk_capacity == DiskSectors * SECTOR_SIZE

\* the driver's memory after virtio_blk_init: alloc_pages returns zeroed pages
VirtioReset ==
    [req |-> [type |-> 0, sector |-> 0, data |-> 0, status |-> 0],
     descs |-> [i \in 0 .. 2 |-> ZeroDesc],
     avail_index |-> 0,
     avail_ring |-> [i \in 0 .. VIRTQ_ENTRY_NUM - 1 |-> 0],
     used_index |-> 0,
     last_used_index |-> 0,
     notify |-> 0]

\* virtq_kick, statement by statement (the fence between the second and
\* the third is sync_synchronize, below)
virtq_kick_ring(V, desc_index) ==
    [V EXCEPT !.avail_ring[V.avail_index % VIRTQ_ENTRY_NUM] = desc_index]
virtq_kick_index(V) ==
    [V EXCEPT !.avail_index = (V.avail_index + 1) % U16]
virtq_kick_notify_none(V) == V
virtq_kick_notify(V) ==
    [V EXCEPT !.notify = V.notify + 1]
virtq_kick_last_used_keep(V) == V
virtq_kick_last_used(V) ==
    [V EXCEPT !.last_used_index = (V.last_used_index + 1) % U16]

\* virtq_kick
virtq_kick(V, desc_index) ==
    virtq_kick_last_used(virtq_kick_notify(virtq_kick_index(
        virtq_kick_ring(V, desc_index))))

\* virtq_is_busy
virtq_is_busy(V) == V.last_used_index /= V.used_index

\* read_write_disk: the range check at its head
rwd_out_of_range_off(sector) == sector > blk_capacity \div SECTOR_SIZE
rwd_out_of_range(sector) == sector >= blk_capacity \div SECTOR_SIZE

\* read_write_disk: the request and the descriptor chain, then the kick
rwd_submit_nocopy(V, b, sector, is_write) ==
    LET req == [V.req EXCEPT
                  !.sector = sector,
                  !.type = IF is_write THEN VIRTIO_BLK_T_OUT ELSE VIRTIO_BLK_T_IN]
        descs == [i \in 0 .. 2 |->
                    CASE i = 0 -> [addr |-> "blk_req", len |-> 16,
                                   flags |-> VIRTQ_DESC_F_NEXT, next |-> 1]
                      [] i = 1 -> [addr |-> "blk_req.data", len |-> SECTOR_SIZE,
                                   flags |-> VIRTQ_DESC_F_NEXT
                                             + (IF is_write THEN 0 ELSE VIRTQ_DESC_F_WRITE),
                                   next |-> 2]
                      [] OTHER -> [addr |-> "blk_req.status", len |-> 1,
                                   flags |-> VIRTQ_DESC_F_WRITE,
                                   next |-> V.descs[2].next]]
    IN  virtq_kick([V EXCEPT !.req = req, !.descs = descs], 0)
\* read_write_disk: the request
rwd_request(V, b, sector, is_write) ==
    [V EXCEPT !.req.sector = sector,
              !.req.type = IF is_write THEN VIRTIO_BLK_T_OUT ELSE VIRTIO_BLK_T_IN,
              !.req.data = IF is_write THEN b ELSE @]
\* read_write_disk: the descriptor chain
rwd_descs(V, is_write) ==
    [V EXCEPT !.descs =
       [i \in 0 .. 2 |->
          CASE i = 0 -> [addr |-> "blk_req", len |-> 16,
                         flags |-> VIRTQ_DESC_F_NEXT, next |-> 1]
            [] i = 1 -> [addr |-> "blk_req.data", len |-> SECTOR_SIZE,
                         flags |-> VIRTQ_DESC_F_NEXT
                                   + (IF is_write THEN 0 ELSE VIRTQ_DESC_F_WRITE),
                         next |-> 2]
            [] OTHER -> [addr |-> "blk_req.status", len |-> 1,
                         flags |-> VIRTQ_DESC_F_WRITE,
                         next |-> V.descs[2].next]]]
rwd_submit(V, b, sector, is_write) ==
    virtq_kick(rwd_descs(rwd_request(V, b, sector, is_write), is_write), 0)

\* read_write_disk: after the busy-wait, the caller's buffer
rwd_result_anystatus(V, b, is_write) ==
    IF ~is_write THEN V.req.data ELSE b
rwd_result(V, b, is_write) ==
    IF V.req.status /= 0 THEN b
    ELSE IF ~is_write THEN V.req.data ELSE b

(***************************************************************************)
(* The device.  It takes the head the driver published in the available    *)
(* ring at its used index, walks the three descriptors, performs the       *)
(* transfer, writes the status byte and advances used.index.  status is    *)
(* the outcome the device reports (0, or 1 for an I/O error) and junk what *)
(* a failed read leaves in the data buffer.                                *)
(***************************************************************************)
DeviceWritable(d) == (d.flags \div VIRTQ_DESC_F_WRITE) % 2 = 1

device_serve(V, D, status, junk) ==
    LET head == V.avail_ring[V.used_index % VIRTQ_ENTRY_NUM]
        d0 == V.descs[head]
        d1 == V.descs[d0.next]
        d2 == V.descs[d1.next]
        sector == V.req.sector
        ok == /\ status = 0
              /\ sector \in DOMAIN D
              /\ d0.addr = "blk_req" /\ d1.addr = "blk_req.data"
              /\ d2.addr = "blk_req.status" /\ DeviceWritable(d2)
              /\ (V.req.type = VIRTIO_BLK_T_IN => DeviceWritable(d1))
        st == IF ok THEN 0 ELSE IF status = 0 THEN 1 ELSE status
        data == IF V.req.type = VIRTIO_BLK_T_IN /\ DeviceWritable(d1)
                THEN (IF ok THEN D[sector] ELSE junk)
                ELSE V.req.data
    IN  [virtio |-> [V EXCEPT !.req.status = st,
                              !.req.data = data,
                              !.used_index = (V.used_index + 1) % U16,
                              !.notify = V.notify - 1],
         disk |-> IF ok /\ V.req.type = VIRTIO_BLK_T_OUT
                  THEN [D EXCEPT ![sector] = V.req.data]
                  ELSE D]

\* one whole read_write_disk call against a device that reports `status`:
\* S = [virtio, disk, buf] before, the same record after
rwd_sync(S, sector, is_write, status) ==
    IF rwd_out_of_range(sector) THEN S
    ELSE LET V1 == rwd_submit(S.virtio, S.buf, sector, is_write)
             R == device_serve(V1, S.disk, status, S.virtio.req.data)
         IN  [virtio |-> R.virtio, disk |-> R.disk,
              buf |-> rwd_result(R.virtio, S.buf, is_write)]

(***************************************************************************)
(* virtio.c: virtio_blk_init and virtq_init.  The device's registers are   *)
(* one record, regs; mmio is the log of the register accesses the driver   *)
(* has made, in order.  A driver state is st = [regs, mmio, halted].       *)
(***************************************************************************)
PAGE_SIZE == 4096
\* 0x74726976
VIRTIO_MAGIC == 1953655158
VIRTIO_DEVICE_BLK == 2
VIRTIO_STATUS_ACK == 1
VIRTIO_STATUS_DRIVER == 2
VIRTIO_STATUS_DRIVER_OK == 4
VIRTIO_STATUS_FEAT_OK == 8
\* virtq_init allocates the virtqueue at page 1 .. MaxPage of the free RAM
MaxPage == 2

RegNames == {"MAGIC", "VERSION", "DEVICE_ID", "DEVICE_STATUS", "QUEUE_SEL",
             "QUEUE_NUM", "QUEUE_ALIGN", "QUEUE_PFN", "DEVICE_CONFIG"}

\* a | b
RECURSIVE BitOr(_, _)
BitOr(a, b) ==
    IF a = 0 THEN b
    ELSE IF b = 0 THEN a
    ELSE (IF a % 2 = 1 \/ b % 2 = 1 THEN 1 ELSE 0) + 2 * BitOr(a \div 2, b \div 2)

Access(op, reg, val) == [op |-> op, reg |-> reg, val |-> val]

virtio_reg_read32(st, reg) ==
    [st EXCEPT !.mmio = Append(@, Access("r", reg, st.regs[reg]))]

virtio_reg_write32(st, reg, val) ==
    [st EXCEPT !.regs[reg] = val, !.mmio = Append(@, Access("w", reg, val))]

virtio_reg_fetch_and_or32(st, reg, val) ==
    virtio_reg_write32(virtio_reg_read32(st, reg), reg, BitOr(st.regs[reg], val))

\* the statements of virtio_blk_init, those of virtq_init(0) inlined where
\* it is called: "require" reads a register and PANICs unless it holds val
Stmt(op, reg, val, msg) == [op |-> op, reg |-> reg, val |-> val, msg |-> msg]

virtio_blk_init_checks_late(paddr) ==
    << Stmt("write", "DEVICE_STATUS", 0, ""),
       Stmt("require", "MAGIC", VIRTIO_MAGIC, "virtio: invalid magic value"),
       Stmt("require", "VERSION", 1, "virtio: invalid version"),
       Stmt("require", "DEVICE_ID", VIRTIO_DEVICE_BLK, "virtio: invalid device id"),
       Stmt("or", "DEVICE_STATUS", VIRTIO_STATUS_ACK, ""),
       Stmt("or", "DEVICE_STATUS", VIRTIO_STATUS_DRIVER, ""),
       Stmt("or", "DEVICE_STATUS", VIRTIO_STATUS_FEAT_OK, ""),
       Stmt("write", "QUEUE_SEL", 0, ""),
       Stmt("write", "QUEUE_NUM", VIRTQ_ENTRY_NUM, ""),
       Stmt("write", "QUEUE_ALIGN", 0, ""),
       Stmt("write", "QUEUE_PFN", paddr, ""),
       Stmt("write", "DEVICE_STATUS", VIRTIO_STATUS_DRIVER_OK, ""),
       Stmt("read", "DEVICE_CONFIG", 0, "") >>

virtio_blk_init(paddr) ==
    << Stmt("require", "MAGIC", VIRTIO_MAGIC, "virtio: invalid magic value"),
       Stmt("require", "VERSION", 1, "virtio: invalid version"),
       Stmt("require", "DEVICE_ID", VIRTIO_DEVICE_BLK, "virtio: invalid device id"),
       Stmt("write", "DEVICE_STATUS", 0, ""),
       Stmt("or", "DEVICE_STATUS", VIRTIO_STATUS_ACK, ""),
       Stmt("or", "DEVICE_STATUS", VIRTIO_STATUS_DRIVER, ""),
       Stmt("or", "DEVICE_STATUS", VIRTIO_STATUS_FEAT_OK, ""),
       Stmt("write", "QUEUE_SEL", 0, ""),
       Stmt("write", "QUEUE_NUM", VIRTQ_ENTRY_NUM, ""),
       Stmt("write", "QUEUE_ALIGN", 0, ""),
       Stmt("write", "QUEUE_PFN", paddr, ""),
       Stmt("write", "DEVICE_STATUS", VIRTIO_STATUS_DRIVER_OK, ""),
       Stmt("read", "DEVICE_CONFIG", 0, "") >>

\* one statement
virtio_blk_init_stmt(st, stmt) ==
    CASE stmt.op = "require" ->
           LET s1 == virtio_reg_read32(st, stmt.reg)
           IN  IF st.regs[stmt.reg] /= stmt.val
               THEN [s1 EXCEPT !.halted = stmt.msg]
               ELSE s1
      [] stmt.op = "write" -> virtio_reg_write32(st, stmt.reg, stmt.val)
      [] stmt.op = "or" -> virtio_reg_fetch_and_or32(st, stmt.reg, stmt.val)
      [] OTHER -> virtio_reg_read32(st, stmt.reg)

\* the statements from position pc on, to the end or to a PANIC
RECURSIVE virtio_blk_init_from(_, _, _)
virtio_blk_init_from(st, prog, pc) ==
    IF pc > Len(prog) \/ st.halted /= "" THEN st
    ELSE virtio_blk_init_from(virtio_blk_init_stmt(st, prog[pc]), prog, pc + 1)

\* a virtio-blk device out of reset
BlkDevice ==
    [r \in RegNames |->
       CASE r = "MAGIC" -> VIRTIO_MAGIC
         [] r = "VERSION" -> 1
         [] r = "DEVICE_ID" -> VIRTIO_DEVICE_BLK
         [] r = "DEVICE_CONFIG" -> DiskSectors
         [] OTHER -> 0]

(***************************************************************************)
(* The request as the device sees it.  The driver's stores to the request, *)
(* the descriptors, the available ring and its index reach the device in   *)
(* any order, each some time after the store; __sync_synchronize returns   *)
(* when all of them have.  What the device writes (the status byte, the    *)
(* data of a read, used.index) is visible to the driver at once.           *)
(***************************************************************************)
DmaLocs == {"req", "descs", "avail_ring", "avail_index"}
DeviceView(V) == [l \in DmaLocs |-> V[l]]

\* the stores to the locations locs reach the device
Visible(dm, V, locs) == [l \in DmaLocs |-> IF l \in locs THEN V[l] ELSE dm[l]]

\* __sync_synchronize()
sync_synchronize_none(dm, V, pend) == [devmem |-> dm, pending |-> pend]
sync_synchronize(dm, V, pend) ==
    [devmem |-> Visible(dm, V, pend), pending |-> {}]

\* the driver after kernel_main's virtio_blk_init() on a virtio-blk device
BootDone ==
    LET paddr == PAGE_SIZE
        st == virtio_blk_init_from([regs |-> BlkDevice, mmio |-> <<>>, halted |-> ""],
                                   virtio_blk_init(paddr), 1)
    IN  /\ init_pc = Len(virtio_blk_init(paddr)) + 1
        /\ virtq_paddr = paddr
        /\ regs = st.regs /\ mmio = st.mmio

\* with no request made yet; where the statements of read_write_disk are
\* not told apart the device reads the driver's memory itself
DriverReady ==
    /\ BootDone
    /\ devmem = DeviceView(VirtioReset)
    /\ pending = {}

(***************************************************************************)
(* fs: the file table.  fs_lookup and fs_flush follow their interface      *)
(* (fs.h) and their documented behaviour.                                  *)
(***************************************************************************)
FileSlots == 1 .. FILES_MAX
FileData == [1 .. FILE_DATA_SIZE -> Bytes]
ZeroData == [i \in 1 .. FILE_DATA_SIZE |-> 0]
EmptyFile == [in_use |-> FALSE, name |-> "", data |-> ZeroData, size |-> 0]

\* fs_lookup: the first in-use slot with that name, or NULL
fs_lookup(fs, filename) ==
    LET hit == {k \in FileSlots : fs[k].in_use /\ fs[k].name = filename}
    IN  IF hit = {} THEN NULL ELSE Min(hit)

\* number of sectors of the disk image fs_flush writes and fs_init reads
ImageSectors == DiskSectors

\* sector s of the TAR image of the file table
TarSector(fs, s) == [tar |-> fs, sector |-> s]

RECURSIVE flush_from(_, _, _)
flush_from(S, fs, s) ==
    IF s >= ImageSectors THEN S
    ELSE flush_from(rwd_sync([S EXCEPT !.buf = TarSector(fs, s)], s, TRUE, 0),
                    fs, s + 1)

\* fs_flush: the whole image, sector by sector, through read_write_disk
fs_flush(V, D, fs) == flush_from([virtio |-> V, disk |-> D, buf |-> 0], fs, 0)

\* memcpy(dst, src, n) on byte arrays of the model's length, 0 <= n
memcpy(dst, src, n) ==
    [i \in DOMAIN dst |-> IF i <= n /\ i \in DOMAIN src THEN src[i] ELSE dst[i]]

(***************************************************************************)
(* process.c                                                               *)
(***************************************************************************)
UnusedProc == [pid |-> 0, state |-> PROC_UNUSED, sp |-> 0, page_table |-> 0]

\* the root page table alloc_pages hands to the process of a slot: a page
\* of its own (the allocator never returns a page twice)
PageTableOf(slot) == slot + 1

\* &proc->stack[0] and &proc->stack[sizeof(proc->stack)] of a slot, as
\* offsets from procs
StackBase(slot) == slot * (PROC_HEADER + STACK_SIZE) + PROC_HEADER
StackTop(slot) == StackBase(slot) + STACK_SIZE
\* __stack_top: the boot stack kernel_main runs on lies past procs
BootStackTop == StackTop(PROCS_MAX) + STACK_SIZE

\* n words pushed below `top`: the addresses they occupy
Pushed(top, n) == {top - WORD * k : k \in 1 .. n}

\* create_process: the initial switch_context frame below the stack top,
\* twelve zero words for s11..s0 and then ra = user_entry
initial_frame_no_ra(top) ==
    [a \in Pushed(top, SWITCH_FRAME_WORDS - 1) |-> "0"]
initial_frame(top) ==
    [a \in Pushed(top, SWITCH_FRAME_WORDS) |->
        IF a = top - WORD * SWITCH_FRAME_WORDS THEN "user_entry" ELSE "0"]

\* memory m after the words w were stored
Store(m, w) == w @@ m

\* create_process: the slot it takes (NULL: PANIC) and the table after it
create_process_pid_slot(ps) ==
    LET free == {i \in Slots : ps[i].state = PROC_UNUSED}
    IN  IF free = {} THEN [slot |-> NULL, frame |-> <<>>, procs |-> ps]
        ELSE LET i == Min(free)
             IN  [slot |-> i,
                  frame |-> initial_frame(StackTop(i)),
                  procs |-> [ps EXCEPT ![i] =
                               [pid |-> i,
                                state |-> PROC_RUNNABLE,
                                sp |-> Min(DOMAIN initial_frame(StackTop(i))),
                                page_table |-> PageTableOf(i)]]]
create_process(ps) ==
    LET free == {i \in Slots : ps[i].state = PROC_UNUSED}
    IN  IF free = {} THEN [slot |-> NULL, frame |-> <<>>, procs |-> ps]
        ELSE LET i == Min(free)
             IN  [slot |-> i,
                  frame |-> initial_frame(StackTop(i)),
                  procs |-> [ps EXCEPT ![i] =
                               [pid |-> i + 1,
                                state |-> PROC_RUNNABLE,
                                sp |-> Min(DOMAIN initial_frame(StackTop(i))),
                                page_table |-> PageTableOf(i)]]]

\* yield: the process the scheduler's loop selects
yield_next_any_state(ps, cur, idle) ==
    LET hits == {i \in 0 .. PROCS_MAX - 1 :
                    ps[(ps[cur].pid + i) % PROCS_MAX].pid > 0
                    /\ ps[(ps[cur].pid + i) % PROCS_MAX].state /= PROC_UNUSED}
    IN  IF hits = {} THEN idle
        ELSE (ps[cur].pid + Min(hits)) % PROCS_MAX
yield_next_from_one(ps, cur, idle) ==
    LET hits == {i \in 1 .. PROCS_MAX - 1 :
                    ps[(ps[cur].pid + i) % PROCS_MAX].state = PROC_RUNNABLE
                    /\ ps[(ps[cur].pid + i) % PROCS_MAX].pid > 0}
    IN  IF hits = {} THEN idle
        ELSE (ps[cur].pid + Min(hits)) % PROCS_MAX
yield_next_no_pid_check(ps, cur, idle) ==
    LET hits == {i \in 0 .. PROCS_MAX - 1 :
                    ps[(ps[cur].pid + i) % PROCS_MAX].state = PROC_RUNNABLE}
    IN  IF hits = {} THEN idle
        ELSE (ps[cur].pid + Min(hits)) % PROCS_MAX
yield_next(ps, cur, idle) ==
    LET hits == {i \in 0 .. PROCS_MAX - 1 :
                    ps[(ps[cur].pid + i) % PROCS_MAX].state = PROC_RUNNABLE
                    /\ ps[(ps[cur].pid + i) % PROCS_MAX].pid > 0}
    IN  IF hits = {} THEN idle
        ELSE (ps[cur].pid + Min(hits)) % PROCS_MAX

\* the kernel stack pointer of a process where yield calls switch_context:
\* kernel_main runs on the boot stack, a user process's handler below its
\* trap frame
KernelSp(cur) ==
    IF cur = idle_proc THEN BootStackTop - YieldDepth
    ELSE frame_at[cur] - YieldDepth

\* yield, after `if (next == current_proc) return`: satp and sscratch are
\* loaded for next, switch_context pushes ra and s0..s11 on the stack of
\* cur, saves its sp, leaves cur suspended at `label` and makes next the
\* running process
SwitchTo_keep_sscratch(ps, cur, next, label) ==
    LET saved == Pushed(KernelSp(cur), SWITCH_FRAME_WORDS)
    IN  /\ current_proc' = next
        /\ satp' = ps[next].page_table
        /\ sscratch' = sscratch
        /\ kmem' = Store(kmem, [a \in saved |->
                                  IF a = Min(saved) THEN "yield" ELSE "sreg"])
        /\ procs' = [ps EXCEPT ![cur].sp = Min(saved)]
        /\ kpc' = [kpc EXCEPT ![cur] = label]
SwitchTo_no_save(ps, cur, next, label) ==
    LET saved == Pushed(KernelSp(cur), SWITCH_FRAME_WORDS)
    IN  /\ current_proc' = next
        /\ satp' = ps[next].page_table
        /\ sscratch' = StackTop(next)
        /\ kmem' = Store(kmem, [a \in saved |->
                                  IF a = Min(saved) THEN "yield" ELSE "sreg"])
        /\ procs' = ps
        /\ kpc' = [kpc EXCEPT ![cur] = label]
SwitchTo(ps, cur, next, label) ==
    LET saved == Pushed(KernelSp(cur), SWITCH_FRAME_WORDS)
    IN  /\ current_proc' = next
        /\ satp' = ps[next].page_table
        /\ sscratch' = StackTop(next)
        /\ kmem' = Store(kmem, [a \in saved |->
                                  IF a = Min(saved) THEN "yield" ELSE "sreg"])
        /\ procs' = [ps EXCEPT ![cur].sp = Min(saved)]
        /\ kpc' = [kpc EXCEPT ![cur] = label]

\* yield returns at `if (next == current_proc) return`
NoSwitch(ps) ==
    /\ procs' = ps
    /\ UNCHANGED <<current_proc, satp, sscratch, kmem>>

\* switch_context's ret in the process it switched to: the word its saved
\* sp points at is taken as the return address
RetTarget(p) ==
    IF procs[p].sp \in DOMAIN kmem THEN kmem[procs[p].sp] ELSE "0"

(***************************************************************************)
(* kernel.c: kernel_main from `idle_proc = create_process(NULL, 0)` on.    *)
(* kernel_main creates one user process, the shell; the model lets it      *)
(* create any number of them before it yields.                             *)
(***************************************************************************)
CreateIdleProcess ==
    /\ halted = "" /\ kmain = "create_idle"
    /\ LET r == create_process(procs)
       IN  IF r.slot = NULL
           THEN /\ halted' = "no free process slots"
                /\ UNCHANGED <<procs, current_proc, idle_proc, kmain, kpc, kmem>>
           ELSE /\ procs' = [r.procs EXCEPT ![r.slot].pid = 0]
                /\ kmem' = Store(kmem, r.frame)
                /\ idle_proc' = r.slot
                /\ current_proc' = r.slot
                /\ kpc' = [kpc EXCEPT ![r.slot] = "kernel_main"]
                /\ kmain' = "create_procs"
                /\ UNCHANGED halted
    /\ UNCHANGED <<csrVars, upc, user_pc, frame, ubuf, frame_at, files, diskVars,
                   callerVars>>
    /\ UNCHANGED <<bootVars, dmaVars>>

CreateUserProcess(max_users) ==
    /\ halted = "" /\ kmain = "create_procs"
    /\ Cardinality({i \in Slots : procs[i].pid > 0}) < max_users
    /\ LET r == create_process(procs)
       IN  IF r.slot = NULL
           THEN /\ halted' = "no free process slots"
                /\ UNCHANGED <<procs, kpc, kmem>>
           ELSE /\ procs' = r.procs
                /\ kmem' = Store(kmem, r.frame)
                /\ kpc' = [kpc EXCEPT ![r.slot] = "fresh"]
                /\ UNCHANGED halted
    /\ UNCHANGED <<current_proc, idle_proc, kmain, csrVars, upc, user_pc, frame,
                   ubuf, frame_at, files, diskVars, callerVars>>
    /\ UNCHANGED <<bootVars, dmaVars>>

KernelMainYield ==
    /\ halted = "" /\ kmain = "create_procs"
    /\ kmain' = "yielded"
    /\ LET next == yield_next(procs, current_proc, idle_proc)
       IN  IF next = current_proc
           THEN /\ halted' = "switched to idle process"
                /\ NoSwitch(procs)
                /\ UNCHANGED kpc
           ELSE /\ SwitchTo(procs, current_proc, next, "main_yield")
                /\ UNCHANGED halted
    /\ UNCHANGED <<idle_proc, sepc, scause, upc, user_pc, frame, ubuf, frame_at,
                   files, diskVars, callerVars>>
    /\ UNCHANGED <<bootVars, dmaVars>>

(***************************************************************************)
(* User mode and the trap path (process.c user_entry, trap.c).             *)
(***************************************************************************)
Running(p, where) == halted = "" /\ current_proc = p /\ kpc[p] = where

NoFrame == [a0 |-> 0, a1 |-> 0, a2 |-> 0, a3 |-> 0]
\* the strings a user program passes as file names: a0 is a pointer to one
UserStrings == <<"hello.txt", "foo">>
Chars == {65}
Lens == -1 .. FILE_DATA_SIZE + 1
\* SYS_WRITEFILE calls are issued while fewer than this many requests were
\* submitted to the device
WriteCap == (ImageSectors + 2) + MaxCalls * ImageSectors

\* user_entry: switch_context's ret in a process whose saved sp points at
\* the frame create_process built (a process never run, or one whose sp no
\* switch_context has saved since)
UserEntry(p) ==
    /\ halted = "" /\ current_proc = p /\ kpc[p] \in {"fresh", "main_yield"}
    /\ RetTarget(p) = "user_entry"
    /\ sepc' = USER_BASE
    /\ upc' = [upc EXCEPT ![p] = USER_BASE]
    /\ kpc' = [kpc EXCEPT ![p] = "user"]
    /\ UNCHANGED <<procVars, scause, satp, sscratch, user_pc, frame, ubuf,
                   frame_at, kmem, files, diskVars, callerVars, halted>>
    /\ UNCHANGED <<bootVars, dmaVars>>

\* a user-mode jump
UserJump(p, target) ==
    /\ Running(p, "user")
    /\ target /= upc[p]
    /\ upc' = [upc EXCEPT ![p] = target]
    /\ UNCHANGED <<procVars, csrVars, kpc, user_pc, frame, ubuf, frame_at, kmem,
                   files, diskVars, callerVars, halted>>
    /\ UNCHANGED <<bootVars, dmaVars>>

\* the registers and the memory at a1 a user program may trap with;
\* file_args are those of its file system calls
AllFileArgs ==
    {[a0 |-> n, a2 |-> l, mem |-> m] :
       n \in DOMAIN UserStrings, l \in Lens, m \in FileData}
OneLenFileArgs ==
    {[a0 |-> n, a2 |-> 1, mem |-> ZeroData] : n \in DOMAIN UserStrings}
TrapArgs(cause, a3, file_args) ==
    IF cause = SCAUSE_ECALL /\ a3 \in {SYS_READFILE, SYS_WRITEFILE}
    THEN file_args
    ELSE IF cause = SCAUSE_ECALL /\ a3 = SYS_PUTCHAR
    THEN {[a0 |-> c, a2 |-> 0, mem |-> ZeroData] : c \in Chars}
    ELSE {[a0 |-> 0, a2 |-> 0, mem |-> ZeroData]}

\* kernel_entry: the trap frame's address, from sscratch as the trap found
\* it, and sscratch as `addi a0, sp, 4 * 31; csrw sscratch, a0` leaves it
trap_frame_at(csr) == csr - WORD * TRAP_FRAME_WORDS
sscratch_reset(sp) == sp + WORD * TRAP_FRAME_WORDS

\* a trap from user mode: the hardware sets sepc and scause, kernel_entry
\* swaps sp with sscratch, pushes the registers as the trap frame and sets
\* sscratch to the address above the frame
Trap(p, cause, a3, args) ==
    /\ Running(p, "user")
    /\ upc[p] \in UserPcs
    /\ a3 = SYS_WRITEFILE => virtio.avail_index < WriteCap
    /\ sepc' = upc[p]
    /\ scause' = cause
    /\ frame' = [frame EXCEPT ![p] = [a0 |-> args.a0, a1 |-> 0,
                                      a2 |-> args.a2, a3 |-> a3]]
    /\ ubuf' = [ubuf EXCEPT ![p] = args.mem]
    /\ kpc' = [kpc EXCEPT ![p] = "trap"]
    /\ frame_at' = [frame_at EXCEPT ![p] = trap_frame_at(sscratch)]
    /\ kmem' = Store(kmem, [a \in Pushed(sscratch, TRAP_FRAME_WORDS) |-> "ureg"])
    /\ sscratch' = sscratch_reset(trap_frame_at(sscratch))
    /\ UNCHANGED <<procVars, satp, upc, user_pc, files, diskVars, callerVars,
                   halted>>
    /\ UNCHANGED <<bootVars, dmaVars>>

\* handle_trap: the value it writes to sepc before it returns, from its
\* local user_pc and the sepc register at that time (uint32_t; the user
\* addresses of the model are far from wrapping)
handle_trap_sepc_reread(local, csr) == csr + 4
handle_trap_sepc(local, csr) == local + 4

\* handle_syscall returns a0val: handle_trap writes sepc and returns
SyscallReturn(p, a0val, local) ==
    /\ frame' = [frame EXCEPT ![p].a0 = a0val]
    /\ sepc' = handle_trap_sepc(local, sepc)
    /\ kpc' = [kpc EXCEPT ![p] = "sret"]

\* SYS_PUTCHAR: the character goes to the SBI console
SysPutchar_yield(p, local) ==
    /\ LET next == yield_next(procs, p, idle_proc)
       IN  IF next = p
           THEN /\ kpc' = [kpc EXCEPT ![p] = "getchar"]
                /\ NoSwitch(procs)
           ELSE SwitchTo(procs, p, next, "getchar")
    /\ UNCHANGED <<frame, sepc, ubuf, files, diskVars, halted>>
SysPutchar(p, local) ==
    /\ SyscallReturn(p, frame[p].a0, local)
    /\ NoSwitch(procs)
    /\ UNCHANGED <<ubuf, files, diskVars, halted>>

\* SYS_GETCHAR: one turn of its loop.  ch is what the SBI getchar returns;
\* without a character the handler yields and, once yield returns, polls
\* again
GetcharLoop(p, ch, local) ==
    IF ch >= 0
    THEN /\ SyscallReturn(p, ch, local)
         /\ NoSwitch(procs)
    ELSE /\ LET next == yield_next(procs, p, idle_proc)
            IN  IF next = p
                THEN /\ kpc' = [kpc EXCEPT ![p] = "getchar"]
                     /\ NoSwitch(procs)
                ELSE SwitchTo(procs, p, next, "getchar")
         /\ UNCHANGED <<frame, sepc>>

SysGetchar(p, ch, local) ==
    /\ GetcharLoop(p, ch, local)
    /\ UNCHANGED <<ubuf, files, diskVars, halted>>

\* SYS_READFILE / SYS_WRITEFILE: the length the handler copies
file_len(len, file) ==
    IF len > FILE_DATA_SIZE THEN file.size ELSE len

\* SYS_READFILE / SYS_WRITEFILE: fs_lookup found no file
FileNotFound_flush(p, local) ==
    /\ SyscallReturn(p, -1, local)
    /\ LET S == fs_flush(virtio, disk, files)
       IN  virtio' = S.virtio /\ disk' = S.disk
    /\ UNCHANGED <<ubuf, files, halted>>
FileNotFound(p, local) ==
    /\ SyscallReturn(p, -1, local)
    /\ UNCHANGED <<ubuf, files, diskVars, halted>>

\* what a memcpy of (size_t) len bytes with len < 0 leaves behind: it runs
\* over the end of its destination until it faults, and the fault is an
\* unexpected trap
FaultCauses == {13, 15}
SizeJunk == 0 .. FILE_DATA_SIZE + 1
FileFault(p, file, is_write) ==
    /\ halted' = "unexpected trap"
    /\ \E c \in FaultCauses : scause' = c
    /\ IF is_write
       THEN /\ \E d \in FileData, n \in SizeJunk :
                 files' = [files EXCEPT ![file].data = d, ![file].size = n]
            /\ UNCHANGED ubuf
       ELSE /\ \E d \in FileData : ubuf' = [ubuf EXCEPT ![p] = d]
            /\ UNCHANGED files
    /\ UNCHANGED <<frame, sepc, kpc, diskVars>>

SysFile(p, local) ==
    LET f == frame[p]
        file == fs_lookup(files, UserStrings[f.a0])
    IN  /\ IF file = NULL
           THEN FileNotFound(p, local) /\ UNCHANGED scause
           ELSE LET len == file_len(f.a2, files[file])
                IN  IF len < 0
                    THEN FileFault(p, file, f.a3 = SYS_WRITEFILE)
                    ELSE IF f.a3 = SYS_WRITEFILE
                    THEN LET fs1 == [files EXCEPT
                                       ![file].data = memcpy(@, ubuf[p], len),
                                       ![file].size = len]
                             S == fs_flush(virtio, disk, fs1)
                         IN  /\ files' = fs1
                             /\ virtio' = S.virtio
                             /\ disk' = S.disk
                             /\ SyscallReturn(p, len, local)
                             /\ UNCHANGED <<ubuf, halted, scause>>
                    ELSE /\ ubuf' = [ubuf EXCEPT
                                       ![p] = memcpy(@, files[file].data, len)]
                         /\ SyscallReturn(p, len, local)
                         /\ UNCHANGED <<files, diskVars, halted, scause>>
        /\ NoSwitch(procs)

\* SYS_EXIT
SysExit(p) ==
    LET ps == [procs EXCEPT ![p].state = PROC_EXITED]
        next == yield_next(ps, p, idle_proc)
    IN  /\ IF next = p
           THEN /\ halted' = "unreachable"
                /\ NoSwitch(ps)
                /\ UNCHANGED kpc
           ELSE /\ SwitchTo(ps, p, next, "exit")
                /\ UNCHANGED halted
        /\ UNCHANGED <<frame, sepc, ubuf, files, diskVars>>

\* handle_trap up to the point where it returns or its process is switched
\* out inside yield
HandleTrap(p, ch) ==
    /\ Running(p, "trap")
    /\ user_pc' = [user_pc EXCEPT ![p] = sepc]
    /\ IF scause /= SCAUSE_ECALL
       THEN /\ halted' = "unexpected trap"
            /\ NoSwitch(procs)
            /\ UNCHANGED <<kpc, frame, sepc, ubuf, files, diskVars, scause>>
       ELSE CASE frame[p].a3 = SYS_PUTCHAR ->
                   SysPutchar(p, sepc) /\ UNCHANGED scause
              [] frame[p].a3 = SYS_GETCHAR ->
                   SysGetchar(p, ch, sepc) /\ UNCHANGED scause
              [] frame[p].a3 \in {SYS_READFILE, SYS_WRITEFILE} ->
                   SysFile(p, sepc)
              [] frame[p].a3 = SYS_EXIT ->
                   SysExit(p) /\ UNCHANGED scause
              [] OTHER ->
                   /\ halted' = "unexpected syscall"
                   /\ NoSwitch(procs)
                   /\ UNCHANGED <<kpc, frame, sepc, ubuf, files, diskVars, scause>>
    /\ UNCHANGED <<idle_proc, kmain, upc, frame_at, callerVars>>
    /\ UNCHANGED <<bootVars, dmaVars>>

\* yield returns in process p: through switch_context's ret, or at once
\* (`if (next == current_proc) return`) when p is the only process to run
YieldReturns(p) ==
    RetTarget(p) = "yield" \/ yield_next(procs, p, idle_proc) = p

\* yield returns in a process suspended in SYS_GETCHAR: the loop polls again
GetcharResume(p, ch) ==
    /\ Running(p, "getchar")
    /\ YieldReturns(p)
    /\ SysGetchar(p, ch, user_pc[p])
    /\ UNCHANGED <<idle_proc, kmain, scause, upc, user_pc, frame_at, callerVars>>
    /\ UNCHANGED <<bootVars, dmaVars>>

\* yield returns in kernel_main, or after the yield of SYS_EXIT
ResumeAfterYield(p) ==
    /\ halted = "" /\ current_proc = p /\ kpc[p] \in {"main_yield", "exit"}
    /\ RetTarget(p) = "yield"
    /\ halted' = IF kpc[p] = "exit" THEN "unreachable"
                 ELSE "switched to idle process"
    /\ UNCHANGED <<procVars, csrVars, ctxVars, files, diskVars, callerVars>>
    /\ UNCHANGED <<bootVars, dmaVars>>

\* kernel_entry restores the registers and executes sret.  What the user
\* program then does with its registers and its memory is its own: the next
\* Trap draws them afresh
TrapReturn(p) ==
    /\ Running(p, "sret")
    /\ upc' = [upc EXCEPT ![p] = sepc]
    /\ kpc' = [kpc EXCEPT ![p] = "user"]
    /\ frame' = [frame EXCEPT ![p] = NoFrame]
    /\ ubuf' = [ubuf EXCEPT ![p] = ZeroData]
    /\ user_pc' = [user_pc EXCEPT ![p] = 0]
    /\ UNCHANGED <<procVars, csrVars, frame_at, kmem, files, diskVars, callerVars,
                   halted>>
    /\ UNCHANGED <<bootVars, dmaVars>>

(***************************************************************************)
(* Spec and SpecFs: the kernel from kernel_main's process creation on.     *)
(*   Spec    kernel_main creates as many user processes as there are       *)
(*           slots (and one more: the PANIC); their file system calls all  *)
(*           pass the length 1 and a zeroed buffer;                        *)
(*   SpecFs  kernel_main creates the shell only, as kernel.c does; its     *)
(*           file system calls pass any name, length and buffer.           *)
(***************************************************************************)
\* the file tables fs_init can load: one file, of any size the slot holds
InitFiles ==
    {[k \in FileSlots |->
        IF k = 1
        THEN [in_use |-> TRUE, name |-> "hello.txt",
              data |-> [i \in 1 .. FILE_DATA_SIZE |-> IF i <= n THEN 1 ELSE 0],
              size |-> n]
        ELSE EmptyFile] : n \in 0 .. FILE_DATA_SIZE}

RECURSIVE read_from(_, _)
read_from(S, s) ==
    IF s >= ImageSectors THEN S
    ELSE read_from(rwd_sync(S, s, FALSE, 0), s + 1)

\* the driver and the disk when kernel_main reaches create_process: fs_init
\* has read the image, kernel_main has read sector 0 and written it back
\* with its greeting (block 1)
BootDisk ==
    LET S0 == [virtio |-> VirtioReset, disk |-> [s \in Sectors |-> 0], buf |-> 0]
        S1 == read_from(S0, 0)
        S2 == rwd_sync(S1, 0, FALSE, 0)
    IN  rwd_sync([S2 EXCEPT !.buf = 1], 0, TRUE, 0)

IdleCaller ==
    /\ rwd = [pc |-> "idle", sector |-> 0, is_write |-> FALSE]
    /\ buf = 0 /\ buf2 = 0
    /\ calls = <<>>

InitProcs ==
    /\ procs = [i \in Slots |-> UnusedProc]
    /\ current_proc = NULL /\ idle_proc = NULL
    /\ kmain = "create_idle"
    /\ sepc = 0 /\ scause = 0 /\ satp = 0 /\ sscratch = 0
    /\ kpc = [i \in Slots |-> "unused"]
    /\ upc = [i \in Slots |-> 0]
    /\ user_pc = [i \in Slots |-> 0]
    /\ frame = [i \in Slots |-> NoFrame]
    /\ ubuf = [i \in Slots |-> ZeroData]
    /\ frame_at = [i \in Slots |-> 0]
    /\ kmem = <<>>
    /\ halted = ""

InitKernel ==
    /\ InitProcs
    /\ DriverReady
    /\ virtio = BootDisk.virtio /\ disk = BootDisk.disk
    /\ IdleCaller

KernelNext(max_users, file_args) ==
    \/ CreateIdleProcess
    \/ CreateUserProcess(max_users)
    \/ KernelMainYield
    \/ \E p \in Slots : UserEntry(p)
    \/ \E p \in Slots, t \in UserPcs : UserJump(p, t)
    \/ \E p \in Slots, cause \in {SCAUSE_ECALL, 13}, a3 \in 1 .. 6 :
         \E args \in TrapArgs(cause, a3, file_args) : Trap(p, cause, a3, args)
    \/ \E p \in Slots, ch \in {-1} \cup Chars : HandleTrap(p, ch)
    \/ \E p \in Slots, ch \in {-1} \cup Chars : GetcharResume(p, ch)
    \/ \E p \in Slots : ResumeAfterYield(p)
    \/ \E p \in Slots : TrapReturn(p)

Init ==
    /\ InitKernel
    /\ files = [k \in FileSlots |->
                  IF k = 1
                  THEN [in_use |-> TRUE, name |-> "hello.txt",
                        data |-> ZeroData, size |-> FILE_DATA_SIZE]
                  ELSE EmptyFile]
Next == KernelNext(PROCS_MAX, OneLenFileArgs)
Spec == Init /\ [][Next]_vars

InitFs == InitKernel /\ files \in InitFiles
NextFs == KernelNext(1, AllFileArgs)
SpecFs == InitFs /\ [][NextFs]_vars

(***************************************************************************)
(* SpecDisk: a caller in the kernel (as kernel_main's disk test is, before *)
(* any process exists) issues read_write_disk calls, for any sector and    *)
(* buffer, against the device.  It writes from buf and reads into buf2.    *)
(***************************************************************************)
SectorArgs == 0 .. DiskSectors
Statuses == {0, 1}

\* the caller's record of its last two returned calls: the arguments, how
\* the call ended, and the buffer it passed as the call left it
Returned(w, sector, res, b) ==
    LET c == [w |-> w, sector |-> sector, res |-> res, buf |-> b]
    IN  IF Len(calls) < 2 THEN Append(calls, c) ELSE <<calls[2], c>>

\* the caller fills the buffer it writes from (kernel_main: strcpy)
FillBuf(b) ==
    /\ rwd.pc = "idle"
    /\ b /= buf
    /\ buf' = b
    /\ UNCHANGED <<rwd, buf2, calls, diskVars, procVars, csrVars, ctxVars, files,
                   halted>>
    /\ UNCHANGED <<bootVars, dmaVars>>

\* read_write_disk up to its busy-wait: a write passes buf, a read buf2
RwdCall(sector, is_write) ==
    /\ rwd.pc = "idle"
    /\ virtio.avail_index < MaxCalls
    /\ IF rwd_out_of_range(sector)
       THEN /\ calls' = Returned(is_write, sector, "range",
                                 IF is_write THEN buf ELSE buf2)
            /\ UNCHANGED <<rwd, virtio>>
       ELSE /\ virtio' = rwd_submit(virtio, IF is_write THEN buf ELSE buf2,
                                    sector, is_write)
            /\ rwd' = [pc |-> "wait", sector |-> sector, is_write |-> is_write]
            /\ UNCHANGED calls
    /\ UNCHANGED <<buf, buf2, disk, procVars, csrVars, ctxVars, files, halted>>
    /\ UNCHANGED <<bootVars, dmaVars>>

\* the device serves the request it was notified of
DeviceServe(status, junk) ==
    /\ virtio.notify > 0
    /\ virtio.used_index /= virtio.avail_index
    /\ LET R == device_serve(virtio, disk, status, junk)
       IN  virtio' = R.virtio /\ disk' = R.disk
    /\ UNCHANGED <<callerVars, procVars, csrVars, ctxVars, files, halted>>
    /\ UNCHANGED <<bootVars, dmaVars>>

\* read_write_disk from the end of its busy-wait to its return
RwdReturn ==
    /\ rwd.pc = "wait"
    /\ ~virtq_is_busy(virtio)
    /\ buf2' = IF rwd.is_write THEN buf2 ELSE rwd_result(virtio, buf2, FALSE)
    /\ buf' = IF rwd.is_write THEN rwd_result(virtio, buf, TRUE) ELSE buf
    /\ calls' = Returned(rwd.is_write, rwd.sector,
                         IF virtio.req.status = 0 THEN "ok" ELSE "err",
                         IF rwd.is_write THEN buf' ELSE buf2')
    /\ rwd' = [rwd EXCEPT !.pc = "idle"]
    /\ UNCHANGED <<diskVars, procVars, csrVars, ctxVars, files, halted>>
    /\ UNCHANGED <<bootVars, dmaVars>>

InitDisk ==
    /\ InitProcs
    /\ DriverReady
    /\ files \in {[k \in FileSlots |-> EmptyFile]}
    /\ virtio = VirtioReset
    /\ disk \in {[s \in Sectors |-> b] : b \in Blocks}
    /\ IdleCaller

NextDisk ==
    \/ \E b \in Blocks : FillBuf(b)
    \/ \E sector \in SectorArgs, w \in BOOLEAN : RwdCall(sector, w)
    \/ \E status \in Statuses, junk \in Blocks : DeviceServe(status, junk)
    \/ RwdReturn

SpecDisk == InitDisk /\ [][NextDisk]_vars

\* SpecDisk with a device that serves every request it is notified of, and
\* a caller that keeps executing its busy-wait loop: the loop runs on the
\* only hart and nothing preempts it.  The caller writes the zero block.
DeviceFair == WF_vars(\E status \in Statuses, junk \in Blocks : DeviceServe(status, junk))
NextDiskLive ==
    \/ \E sector \in SectorArgs, w \in BOOLEAN : RwdCall(sector, w)
    \/ \E status \in Statuses, junk \in Blocks : DeviceServe(status, junk)
    \/ RwdReturn
SpecDiskLive == InitDisk /\ [][NextDiskLive]_vars /\ DeviceFair /\ WF_vars(RwdReturn)

(***************************************************************************)
(* SpecBoot: virtio_blk_init, one statement at a time, on any device: its  *)
(* identification registers may hold wrong values, its status register     *)
(* what was last left in it, and alloc_pages may return any page.          *)
(***************************************************************************)
StatusValues == 0 .. 2 * VIRTIO_STATUS_FEAT_OK - 1
Devices ==
    {[BlkDevice EXCEPT !["MAGIC"] = m, !["VERSION"] = v, !["DEVICE_ID"] = d,
                       !["DEVICE_STATUS"] = s] :
       m \in {VIRTIO_MAGIC, 0}, v \in {1, 2}, d \in {VIRTIO_DEVICE_BLK, 1},
       s \in StatusValues}

VirtioBlkInitStep ==
    /\ halted = ""
    /\ init_pc \in 1 .. Len(virtio_blk_init(virtq_paddr))
    /\ LET st == virtio_blk_init_stmt([regs |-> regs, mmio |-> mmio, halted |-> ""],
                                      virtio_blk_init(virtq_paddr)[init_pc])
       IN  /\ regs' = st.regs /\ mmio' = st.mmio /\ halted' = st.halted
           /\ init_pc' = IF st.halted = "" THEN init_pc + 1 ELSE init_pc
    /\ UNCHANGED <<virtq_paddr, dmaVars, procVars, csrVars, ctxVars, files,
                   diskVars, callerVars>>

InitBoot ==
    /\ InitProcs
    /\ files \in {[k \in FileSlots |-> EmptyFile]}
    /\ virtio = VirtioReset
    /\ disk \in {[s \in Sectors |-> 0]}
    /\ IdleCaller
    /\ init_pc = 1
    /\ virtq_paddr \in {PAGE_SIZE * k : k \in 1 .. MaxPage}
    /\ regs \in Devices
    /\ mmio = <<>>
    /\ devmem = DeviceView(VirtioReset)
    /\ pending = {}

NextBoot == VirtioBlkInitStep

SpecBoot == InitBoot /\ [][NextBoot]_vars

(***************************************************************************)
(* SpecVq: read_write_disk and virtq_kick one statement at a time, against *)
(* a device that reads the driver's memory as far as the stores have       *)
(* reached it.  The ring indices start at their last value before they     *)
(* wrap: the driver has served 65535 requests.  The caller writes the zero *)
(* block.  rwd.pc runs through                                             *)
(*   idle, descs, ring, index, fence, notify, last_used, wait.             *)
(***************************************************************************)
\* in-range requests submitted since the start
Submitted == (virtio.avail_index + 1) % U16

\* read_write_disk: the range check, then the stores to *blk_req
VqRequest(sector, is_write) ==
    /\ rwd.pc = "idle"
    /\ Submitted < MaxCalls
    /\ IF rwd_out_of_range(sector)
       THEN /\ calls' = Returned(is_write, sector, "range",
                                 IF is_write THEN buf ELSE buf2)
            /\ UNCHANGED <<rwd, virtio, pending>>
       ELSE /\ virtio' = rwd_request(virtio, IF is_write THEN buf ELSE buf2,
                                     sector, is_write)
            /\ pending' = pending \cup {"req"}
            /\ rwd' = [pc |-> "descs", sector |-> sector, is_write |-> is_write]
            /\ UNCHANGED calls
    /\ UNCHANGED <<buf, buf2, disk, devmem, bootVars, procVars, csrVars, ctxVars,
                   files, halted>>

\* a statement of the driver that stores to the locations locs
VqStore(pc, next_pc, V, locs) ==
    /\ rwd.pc = pc
    /\ virtio' = V
    /\ pending' = pending \cup locs
    /\ rwd' = [rwd EXCEPT !.pc = next_pc]
    /\ UNCHANGED <<buf, buf2, calls, disk, devmem, bootVars, procVars, csrVars,
                   ctxVars, files, halted>>

\* read_write_disk: the stores to vq->descs[0..2]
VqDescs == VqStore("descs", "ring", rwd_descs(virtio, rwd.is_write), {"descs"})
\* virtq_kick: vq->avail.ring[vq->avail.index % VIRTQ_ENTRY_NUM] = desc_index
VqRing == VqStore("ring", "index", virtq_kick_ring(virtio, 0), {"avail_ring"})
\* virtq_kick: vq->avail.index++
VqIndex == VqStore("index", "fence", virtq_kick_index(virtio), {"avail_index"})
\* virtq_kick: the write to QUEUE_NOTIFY
VqNotify == VqStore("notify", "last_used", virtq_kick_notify(virtio), {})
\* virtq_kick: vq->last_used_index++
VqLastUsed == VqStore("last_used", "wait", virtq_kick_last_used(virtio), {})

\* virtq_kick: __sync_synchronize()
VqFence ==
    /\ rwd.pc = "fence"
    /\ LET f == sync_synchronize(devmem, virtio, pending)
       IN  devmem' = f.devmem /\ pending' = f.pending
    /\ rwd' = [rwd EXCEPT !.pc = "notify"]
    /\ UNCHANGED <<buf, buf2, calls, diskVars, bootVars, procVars, csrVars,
                   ctxVars, files, halted>>

\* one store reaches the device
Propagate(loc) ==
    /\ loc \in pending
    /\ devmem' = Visible(devmem, virtio, {loc})
    /\ pending' = pending \ {loc}
    /\ UNCHANGED <<callerVars, diskVars, bootVars, procVars, csrVars, ctxVars,
                   files, halted>>

\* the driver's memory as the device reads it
DeviceReads(V, dm) ==
    [V EXCEPT !.req = dm.req, !.descs = dm.descs, !.avail_ring = dm.avail_ring,
              !.avail_index = dm.avail_index]

\* the device takes a notification: it serves the request it finds, or
\* finds the available index where it left it and does nothing
VqDeviceServe(status, junk) ==
    /\ virtio.notify > 0
    /\ IF devmem.avail_index = virtio.used_index
       THEN /\ virtio' = [virtio EXCEPT !.notify = @ - 1]
            /\ UNCHANGED <<disk, devmem>>
       ELSE LET R == device_serve(DeviceReads(virtio, devmem), disk, status, junk)
            IN  /\ virtio' = [virtio EXCEPT !.req.status = R.virtio.req.status,
                                            !.req.data = R.virtio.req.data,
                                            !.used_index = R.virtio.used_index,
                                            !.notify = R.virtio.notify]
                /\ devmem' = [devmem EXCEPT !.req.status = R.virtio.req.status,
                                            !.req.data = R.virtio.req.data]
                /\ disk' = R.disk
    /\ UNCHANGED <<callerVars, pending, bootVars, procVars, csrVars, ctxVars,
                   files, halted>>

\* the driver's memory after 65535 reads of sector 0
VirtioBeforeWrap ==
    LET V == rwd_sync([virtio |-> VirtioReset, disk |-> [s \in Sectors |-> 0],
                       buf |-> 0], 0, FALSE, 0).virtio
    IN  [V EXCEPT !.avail_index = U16 - 1, !.used_index = U16 - 1,
                  !.last_used_index = U16 - 1]

InitVq ==
    /\ InitProcs
    /\ files \in {[k \in FileSlots |-> EmptyFile]}
    /\ virtio = VirtioBeforeWrap
    /\ disk \in {[s \in Sectors |-> b] : b \in Blocks}
    /\ IdleCaller
    /\ BootDone
    /\ devmem = DeviceView(virtio)
    /\ pending = {}

NextVq ==
    \/ \E sector \in SectorArgs, w \in BOOLEAN : VqRequest(sector, w)
    \/ VqDescs
    \/ VqRing
    \/ VqIndex
    \/ VqFence
    \/ VqNotify
    \/ VqLastUsed
    \/ \E loc \in DmaLocs : Propagate(loc)
    \/ \E status \in Statuses, junk \in Blocks : VqDeviceServe(status, junk)
    \/ RwdReturn

SpecVq == InitVq /\ [][NextVq]_vars

(***************************************************************************)
(* The claims.                                                             *)
(***************************************************************************)
RunnableUsers(ps) == {i \in Slots : ps[i].state = PROC_RUNNABLE /\ ps[i].pid > 0}

\* a step in which process p calls yield from the SYS_GETCHAR loop
GetcharYieldStep(p) ==
    /\ halted = "" /\ current_proc = p
    /\ \/ kpc[p] = "trap" /\ scause = SCAUSE_ECALL /\ frame[p].a3 = SYS_GETCHAR
       \/ kpc[p] = "getchar"
    /\ kpc'[p] = "getchar"

\* a step in which process p calls yield from SYS_EXIT
ExitYieldStep(p) ==
    /\ halted = "" /\ current_proc = p
    /\ procs[p].state = PROC_RUNNABLE /\ procs'[p].state = PROC_EXITED

\* C1: yield never makes the idle process the current process while a user
\* process (pid > 0) is RUNNABLE: once kernel_main has yielded, the idle
\* process is current only when no user process is RUNNABLE, and no step
\* hands the processor to it while one is.  A yield called by the only
\* RUNNABLE user process leaves that process current and leaves satp,
\* sscratch and every saved context as they were.
C1_IdleOnlyWhenNoUserRunnable ==
    /\ [](kmain = "yielded" /\ current_proc = idle_proc
            => RunnableUsers(procs) = {})
    /\ [][/\ (current_proc' /= current_proc /\ current_proc' = idle_proc')
               => RunnableUsers(procs') = {}
          /\ \A p \in Slots :
               (GetcharYieldStep(p) /\ RunnableUsers(procs) = {p})
               => /\ current_proc' = p
                  /\ satp' = satp /\ sscratch' = sscratch
                  /\ \A q \in Slots \ {p} : kpc'[q] = kpc[q]]_vars

\* C1 witness: the only RUNNABLE user process has called yield, the other
\* user process having exited, and is still the current process
C1_Witness ==
    \E p \in Slots, q \in Slots :
        /\ p /= q /\ procs[q].state = PROC_EXITED
        /\ RunnableUsers(procs) = {p}
        /\ current_proc = p /\ kpc[p] = "getchar" /\ halted = ""
        /\ satp = procs[p].page_table /\ sscratch = StackTop(p)

\* the first slot after `slot`, in cyclic order and the slot itself last,
\* that holds a RUNNABLE user process
CyclicDistance(slot, c) == (c - slot - 1 + PROCS_MAX) % PROCS_MAX
RoundRobinNext(ps, slot) ==
    CHOOSE c \in RunnableUsers(ps) :
        \A d \in RunnableUsers(ps) : CyclicDistance(slot, c) <= CyclicDistance(slot, d)

RECURSIVE YieldOrbit(_, _, _)
\* the processes that become current in the next k yields, each called by
\* the process the one before selected, starting with p
YieldOrbit(ps, p, k) ==
    IF k = 0 THEN {}
    ELSE LET n == yield_next(ps, p, idle_proc)
         IN  {n} \cup YieldOrbit(ps, n, k - 1)

\* C2: yield is round-robin over the slots.  Called by a user process, it
\* selects the first slot after the caller's, in cyclic order, that holds a
\* RUNNABLE user process; with exactly two RUNNABLE user processes the
\* caller hands over to the other one; and with k RUNNABLE user processes
\* that keep yielding, k consecutive yields make each of them current.
C2_RoundRobin ==
    /\ [](idle_proc /= NULL =>
            \A p \in RunnableUsers(procs) :
               YieldOrbit(procs, p, Cardinality(RunnableUsers(procs)))
                 = RunnableUsers(procs))
    /\ [][\A p \in Slots :
            (procs[p].pid > 0 /\ (GetcharYieldStep(p) \/ ExitYieldStep(p))
             /\ RunnableUsers(procs') /= {})
            => /\ current_proc' = RoundRobinNext(procs', p)
               /\ (Cardinality(RunnableUsers(procs')) = 2 /\ p \in RunnableUsers(procs')
                     => current_proc' \in RunnableUsers(procs') \ {p})]_vars

\* C2 witness: two RUNNABLE user processes have each yielded from
\* SYS_GETCHAR, and the first of them is current again
C2_Witness ==
    \E a \in Slots, b \in Slots :
        /\ a < b /\ RunnableUsers(procs) = {a, b}
        /\ kpc[a] = "getchar" /\ kpc[b] = "getchar"
        /\ current_proc = a /\ halted = ""

\* C3: whenever a process is about to execute the sret of kernel_entry,
\* sepc is the address of its own ecall plus 4
C3_SepcOnSret ==
    \A p \in Slots : kpc[p] = "sret" => sepc = upc[p] + 4

\* C3 witness: p returns from a SYS_GETCHAR issued at USER_BASE + 4; while it
\* was suspended in yield, q entered user mode through user_entry and
\* trapped at USER_BASE
C3_Witness ==
    \E p \in Slots, q \in Slots :
        /\ p /= q
        /\ current_proc = p /\ kpc[p] = "sret" /\ frame[p].a3 = SYS_GETCHAR
        /\ upc[p] = USER_BASE + 4
        /\ kpc[q] = "getchar" /\ upc[q] = USER_BASE /\ user_pc[q] = USER_BASE

\* C4: SYS_EXIT never returns.  A process that yielded from SYS_EXIT is
\* never the current process again, an EXITED process stays EXITED, and
\* PANIC("unreachable") is never executed.
C4_ExitNeverReturns ==
    /\ [](/\ halted /= "unreachable"
          /\ \A p \in Slots : kpc[p] = "exit"
                => current_proc /= p /\ procs[p].state = PROC_EXITED)
    /\ [][\A p \in Slots : procs[p].state = PROC_EXITED
                => procs'[p].state = PROC_EXITED]_vars

\* C4 witness: one user process has exited and another one has since
\* yielded and been scheduled again
C4_Witness ==
    \E p \in Slots, q \in Slots :
        /\ p < q
        /\ procs[p].state = PROC_EXITED /\ kpc[p] = "exit"
        /\ current_proc = q /\ kpc[q] = "getchar" /\ halted = ""

\* the system calls whose handler does not call yield
NonYielding == {SYS_PUTCHAR, SYS_READFILE, SYS_WRITEFILE}

\* C10: SYS_PUTCHAR, SYS_READFILE and SYS_WRITEFILE are atomic with respect
\* to the other processes: from the trap to the sret the caller stays the
\* current process, and a user process that is inside the kernel while
\* another process runs is inside SYS_GETCHAR or SYS_EXIT.
C10_NonYieldingAtomic ==
    /\ [](\A p \in Slots :
            /\ (kpc[p] \in {"trap", "sret"} /\ frame[p].a3 \in NonYielding)
                 => current_proc = p
            /\ (procs[p].pid > 0 /\ current_proc /= p /\ kpc[p] /= "fresh")
                 => frame[p].a3 \in {SYS_GETCHAR, SYS_EXIT})
    /\ [][\A p \in Slots :
            (kpc[p] = "trap" /\ scause = SCAUSE_ECALL /\ frame[p].a3 \in NonYielding)
            => current_proc' = current_proc /\ kpc'[p] = "sret"]_vars

\* C10 witness: a process returns from SYS_WRITEFILE while another user
\* process is RUNNABLE and suspended in SYS_GETCHAR
C10_Witness ==
    \E p \in Slots, q \in Slots :
        /\ p /= q
        /\ current_proc = p /\ kpc[p] = "sret" /\ frame[p].a3 = SYS_WRITEFILE
        /\ frame[p].a0 = 1
        /\ kpc[q] = "getchar" /\ procs[q].state = PROC_RUNNABLE

\* a READFILE trap of p is about to be handled, for a file that exists and
\* that an earlier SYS_WRITEFILE wrote (fs_flush ran since boot)
ReadAfterWrite(p) ==
    /\ Running(p, "trap") /\ scause = SCAUSE_ECALL
    /\ frame[p].a3 = SYS_READFILE
    /\ fs_lookup(files, UserStrings[frame[p].a0]) /= NULL
    /\ virtio.avail_index > BootDisk.virtio.avail_index

\* C5: after a SYS_WRITEFILE set a file's size to n, a SYS_READFILE of that
\* file with len > n returns n in a0 and the first n bytes of the buffer are
\* the file's data
C5_ReadReturnsSize ==
    [][\A p \in Slots :
         LET file == files[fs_lookup(files, UserStrings[frame[p].a0])]
         IN  (ReadAfterWrite(p) /\ frame[p].a2 > file.size)
             => /\ frame'[p].a0 = file.size
                /\ \A i \in 1 .. file.size : ubuf'[p][i] = file.data[i]]_vars

\* C5, the case of the failing input: the file holds fewer bytes than its
\* slot can, len is more than it holds and no more than the slot's capacity,
\* and SYS_READFILE has returned len
C5_Divergence ==
    \E p \in Slots, k \in FileSlots :
        /\ files[k].in_use
        /\ current_proc = p /\ kpc[p] = "sret" /\ frame[p].a3 = SYS_READFILE
        /\ virtio.avail_index > BootDisk.virtio.avail_index
        /\ files[k].size < frame[p].a2 /\ frame[p].a2 <= FILE_DATA_SIZE
        /\ frame[p].a0 = frame[p].a2

\* the names fs_lookup can find
InUseNames(fs) == {fs[k].name : k \in {j \in FileSlots : fs[j].in_use}}

\* C9: SYS_READFILE or SYS_WRITEFILE naming a file that is not in the file
\* table returns -1 in a0, leaves every file and the caller's buffer as they
\* were, submits no disk request, leaves current_proc alone and returns to
\* the caller without halting
C9_FileNotFound ==
    [][\A p \in Slots :
         (/\ Running(p, "trap") /\ scause = SCAUSE_ECALL
          /\ frame[p].a3 \in {SYS_READFILE, SYS_WRITEFILE}
          /\ UserStrings[frame[p].a0] \notin InUseNames(files))
         => /\ frame'[p].a0 = -1
            /\ files' = files /\ ubuf' = ubuf
            /\ virtio' = virtio /\ disk' = disk
            /\ current_proc' = current_proc
            /\ kpc'[p] = "sret" /\ halted' = ""]_vars

\* C9 witness: a SYS_WRITEFILE of a non-zero buffer to a file that does not
\* exist has returned -1
C9_Witness ==
    \E p \in Slots :
        /\ current_proc = p /\ kpc[p] = "sret" /\ halted = ""
        /\ frame[p].a3 = SYS_WRITEFILE /\ frame[p].a0 = -1
        /\ ubuf[p] /= ZeroData
        /\ virtio.avail_index > BootDisk.virtio.avail_index

\* the device reported no error in either of the caller's last two calls
DeviceWorked == \A i \in DOMAIN calls : calls[i].res /= "err"
\* the caller's last two calls were a write and then a read of one sector
WriteThenRead ==
    /\ Len(calls) = 2
    /\ calls[1].w /\ ~calls[2].w
    /\ calls[1].sector = calls[2].sector

\* C6 as stated: for every sector number s, read_write_disk(buf, s, write)
\* immediately followed by read_write_disk(buf2, s, read) leaves buf2 equal
\* to buf
C6_RoundTripAnySector ==
    (WriteThenRead /\ DeviceWorked) => calls[2].buf = calls[1].buf

\* C6 amended: for every sector s in range (s * SECTOR_SIZE < capacity),
\* read_write_disk(buf, s, write) immediately followed by
\* read_write_disk(buf2, s, read) leaves buf2 equal to buf
C6_RoundTripInRange ==
    (/\ WriteThenRead /\ DeviceWorked
     /\ calls[1].sector * SECTOR_SIZE < blk_capacity)
    => calls[2].buf = calls[1].buf

\* C6 witness: block 1 was written to the last sector, which held block 0,
\* and read back into a buffer that held block 0
C6_Witness ==
    /\ WriteThenRead /\ DeviceWorked
    /\ calls[1].sector = DiskSectors - 1
    /\ calls[1].buf = 1 /\ calls[2].buf = 1 /\ buf2 = 1
    /\ rwd.pc = "idle"

\* C7: a read_write_disk call whose sector is out of range
\* (sector * SECTOR_SIZE >= capacity) changes nothing: the caller's buffers,
\* the request buffer, the descriptors, avail.index, last_used_index and the
\* disk are as before, QUEUE_NOTIFY is not written, and the call returns
\* without halting
C7_OutOfRangeNoOp ==
    [][(\E sector \in SectorArgs, w \in BOOLEAN :
           /\ sector * SECTOR_SIZE >= blk_capacity
           /\ RwdCall(sector, w))
       => /\ buf' = buf /\ buf2' = buf2
          /\ virtio' = virtio /\ disk' = disk
          /\ rwd'.pc = "idle" /\ halted' = ""]_vars

\* C7 witness: after a write that the device served, a call for sector
\* capacity / SECTOR_SIZE has returned
C7_Witness ==
    /\ Len(calls) = 2
    /\ calls[1].res = "ok" /\ calls[1].w
    /\ calls[2].res = "range" /\ calls[2].sector = blk_capacity \div SECTOR_SIZE
    /\ virtio.avail_index = 1 /\ virtio.notify = 0
    /\ rwd.pc = "idle" /\ halted = ""

\* C8: when the device completes a request with a non-zero status byte,
\* read_write_disk returns (its busy-wait ends once the device has served
\* the request, and it does not halt) and the caller's buffers are as they
\* were before the call
C8_StatusNonZero ==
    /\ [](rwd.pc = "wait" /\ virtio.notify = 0 => ~virtq_is_busy(virtio))
    /\ [][(rwd.pc = "wait" /\ rwd'.pc /= "wait" /\ virtio.req.status /= 0)
          => /\ buf' = buf /\ buf2' = buf2
             /\ rwd'.pc = "idle" /\ halted' = ""]_vars

\* C8 witness: a read has returned after the device reported an error and
\* left in the request buffer a block that is not in the caller's buffer
C8_Witness ==
    /\ Len(calls) >= 1
    /\ ~calls[Len(calls)].w /\ calls[Len(calls)].res = "err"
    /\ virtio.req.status /= 0
    /\ virtio.req.data /= buf2
    /\ rwd.pc = "idle" /\ halted = ""

\* the slots create_process has taken for user processes
UserSlots == {i \in Slots : procs[i].state /= PROC_UNUSED /\ i /= idle_proc}
\* the first yield of kernel_main, with the shell created
FirstYield == kmain = "create_procs" /\ kmain' = "yielded" /\ UserSlots /= {}

\* C11 as stated: the idle process has pid 0 and every user process a pid in
\* 1..PROCS_MAX-1; the first user process created has pid 1
C11_UserPidsFromOne ==
    idle_proc /= NULL =>
        /\ procs[idle_proc].pid = 0
        /\ \A i \in UserSlots : procs[i].pid \in 1 .. PROCS_MAX - 1
        /\ UserSlots /= {} => procs[Min(UserSlots)].pid = 1

\* C11 amended: the idle process has pid 0 and the user process in slot i
\* has pid i + 1, a pid in 2..PROCS_MAX; the first user process created (the
\* shell) has pid 2, and it is the process that runs after the first yield
C11_PidIsSlotPlusOne ==
    /\ [](idle_proc /= NULL =>
            /\ idle_proc = 0 /\ procs[idle_proc].pid = 0
            /\ \A i \in UserSlots :
                 procs[i].pid = i + 1 /\ procs[i].pid \in 2 .. PROCS_MAX
            /\ UserSlots /= {} => procs[Min(UserSlots)].pid = 2)
    /\ [][FirstYield =>
            /\ current_proc' = Min(UserSlots)
            /\ procs'[current_proc'].pid = 2
            /\ kpc'[current_proc'] = "fresh"]_vars

\* C11 witness: every slot is taken, kernel_main has yielded and the shell,
\* pid 2, has entered user mode; the last slot's process has pid PROCS_MAX
C11_Witness ==
    /\ kmain = "yielded" /\ halted = ""
    /\ UserSlots = Slots \ {0}
    /\ current_proc = 1 /\ procs[1].pid = 2 /\ kpc[1] = "user"
    /\ procs[PROCS_MAX - 1].pid = PROCS_MAX

\* the processes that hold a trap frame: between kernel_entry's register
\* save and its sret
InKernel(p) == kpc[p] \in {"trap", "getchar", "exit", "sret"}

\* C12: whenever the current process executes in user mode or enters
\* handle_trap, sscratch is the top of its own kernel stack, so every trap
\* frame lies at the top of the stack of the process that trapped
C12_SscratchIsOwnStackTop ==
    \A p \in Slots :
        /\ (current_proc = p /\ kpc[p] \in {"user", "trap"})
             => sscratch = StackTop(p)
        /\ InKernel(p)
             => frame_at[p] = StackTop(p) - WORD * TRAP_FRAME_WORDS

\* C12 witness: p enters handle_trap for the second time, on its own stack,
\* after it was entered through user_entry while q was suspended in yield;
\* q has since run and yielded again
C12_Witness ==
    \E p \in Slots, q \in Slots :
        /\ p /= q /\ halted = ""
        /\ current_proc = p /\ kpc[p] = "trap" /\ upc[p] = USER_BASE + WORD
        /\ kmem[procs[p].sp] = "yield"
        /\ kpc[q] = "getchar" /\ procs[q].state = PROC_RUNNABLE
        /\ sscratch = StackTop(p) /\ sscratch /= StackTop(q)

\* procs[i].sp points inside procs[i].stack at a 13-word frame that
\* switch_context can pop: ra, then s0..s11
SwitchFrameAt(i) ==
    LET sp == procs[i].sp
    IN  /\ StackBase(i) <= sp
        /\ sp + WORD * SWITCH_FRAME_WORDS <= StackTop(i)
        /\ sp \in DOMAIN kmem /\ kmem[sp] \in {"user_entry", "yield"}
        /\ \A k \in 1 .. SWITCH_FRAME_WORDS - 1 :
             sp + WORD * k \in DOMAIN kmem /\ kmem[sp + WORD * k] \in {"0", "sreg"}

\* C13 as stated: in every state, for every slot i > 0 whose state is
\* RUNNABLE, procs[i].sp points inside procs[i].stack at the saved ra of a
\* switch_context frame
C13_SavedFrameEveryRunnable ==
    \A i \in Slots \ {0} : procs[i].state = PROC_RUNNABLE => SwitchFrameAt(i)

\* C13 amended: in every state, for every slot i > 0 whose state is RUNNABLE
\* and whose process is not the running one, procs[i].sp points inside
\* procs[i].stack at the saved ra of a switch_context frame, built by
\* create_process or saved by switch_context
C13_SavedFrameWhenSwitchedOut ==
    \A i \in Slots \ {0} :
        (procs[i].state = PROC_RUNNABLE /\ i /= current_proc) => SwitchFrameAt(i)

\* C13 witness: q is suspended on a frame switch_context saved; the running
\* process p was entered through the frame create_process built, and its
\* trap frame has since overwritten that frame's ra word
C13_Witness ==
    \E p \in Slots \ {0}, q \in Slots \ {0} :
        /\ p /= q /\ halted = ""
        /\ current_proc = p /\ kpc[p] = "trap"
        /\ procs[p].sp = StackTop(p) - WORD * SWITCH_FRAME_WORDS
        /\ kmem[procs[p].sp] = "ureg"
        /\ procs[q].state = PROC_RUNNABLE /\ kpc[q] = "getchar"
        /\ kmem[procs[q].sp] = "yield"


(***************************************************************************)
(* virtio_blk_init (SpecBoot).                                             *)
(***************************************************************************)
InitDone == halted = "" /\ init_pc > Len(virtio_blk_init(virtq_paddr))
WritesTo(reg) == SelectSeq(mmio, LAMBDA a : a.op = "w" /\ a.reg = reg)
AllStatusBits ==
    VIRTIO_STATUS_ACK + VIRTIO_STATUS_DRIVER + VIRTIO_STATUS_FEAT_OK
    + VIRTIO_STATUS_DRIVER_OK

\* C14: after the reset write of 0, every write to the STATUS register
\* keeps the bits that were set and adds a new one, and when
\* virtio_blk_init has finished STATUS holds ACK|DRIVER|FEAT_OK|DRIVER_OK.
C14_StatusOnlyGainsBits ==
    LET W == WritesTo("DEVICE_STATUS")
    IN  /\ \A i \in 2 .. Len(W) :
             /\ BitOr(W[i - 1].val, W[i].val) = W[i].val
             /\ W[i].val /= W[i - 1].val
        /\ InitDone => regs["DEVICE_STATUS"] = AllStatusBits
\* virtio_blk_init has finished and STATUS holds DRIVER_OK alone
C14_Divergence ==
    /\ InitDone
    /\ regs["DEVICE_STATUS"] = VIRTIO_STATUS_DRIVER_OK
    /\ WritesTo("DEVICE_STATUS")[Len(WritesTo("DEVICE_STATUS")) - 1].val
         = VIRTIO_STATUS_ACK + VIRTIO_STATUS_DRIVER + VIRTIO_STATUS_FEAT_OK

\* C15: the value virtq_init writes to the QUEUE_PFN register is the page
\* frame number of the virtqueue, virtq_paddr / PAGE_SIZE, for every
\* page-aligned virtq_paddr.
C15_QueuePfnIsPageNumber ==
    /\ virtq_paddr % PAGE_SIZE = 0
    /\ \A i \in 1 .. Len(WritesTo("QUEUE_PFN")) :
         WritesTo("QUEUE_PFN")[i].val = virtq_paddr \div PAGE_SIZE
\* virtq_init has written the address itself to QUEUE_PFN
C15_Divergence ==
    /\ Len(WritesTo("QUEUE_PFN")) = 1
    /\ regs["QUEUE_PFN"] = virtq_paddr
    /\ regs["QUEUE_PFN"] /= virtq_paddr \div PAGE_SIZE

\* positions in the access log
Accesses(op, reg) ==
    {i \in 1 .. Len(mmio) : mmio[i].op = op /\ mmio[i].reg = reg}
Passed(reg, val) == {i \in Accesses("r", reg) : mmio[i].val = val}
AnyWrite == {i \in 1 .. Len(mmio) : mmio[i].op = "w"}
StatusReset == {i \in Accesses("w", "DEVICE_STATUS") : mmio[i].val = 0}
StatusSet(bit) ==
    {i \in Accesses("w", "DEVICE_STATUS") : (mmio[i].val \div bit) % 2 = 1}
\* every access of B comes after some access of A
Precedes(A, B) == \A b \in B : \E a \in A : a < b

\* C18: virtio_blk_init keeps its order: the MAGIC, VERSION and DEVICE_ID
\* checks pass before any register is written and a failed check PANICs
\* with nothing written; STATUS is reset before any status bit is set; ACK
\* comes before DRIVER before FEAT_OK; QUEUE_SEL, QUEUE_NUM, QUEUE_ALIGN and
\* QUEUE_PFN are written in that order after FEAT_OK and before DRIVER_OK;
\* DEVICE_CONFIG is read only after DRIVER_OK.
C18_InitOrder ==
    /\ Precedes(Passed("MAGIC", VIRTIO_MAGIC), AnyWrite)
    /\ Precedes(Passed("VERSION", 1), AnyWrite)
    /\ Precedes(Passed("DEVICE_ID", VIRTIO_DEVICE_BLK), AnyWrite)
    /\ halted /= "" => AnyWrite = {}
    /\ \A bit \in {VIRTIO_STATUS_ACK, VIRTIO_STATUS_DRIVER, VIRTIO_STATUS_FEAT_OK,
                   VIRTIO_STATUS_DRIVER_OK} :
         Precedes(StatusReset, StatusSet(bit))
    /\ Precedes(StatusSet(VIRTIO_STATUS_ACK), StatusSet(VIRTIO_STATUS_DRIVER))
    /\ Precedes(StatusSet(VIRTIO_STATUS_DRIVER), StatusSet(VIRTIO_STATUS_FEAT_OK))
    /\ Precedes(StatusSet(VIRTIO_STATUS_FEAT_OK), Accesses("w", "QUEUE_SEL"))
    /\ Precedes(Accesses("w", "QUEUE_SEL"), Accesses("w", "QUEUE_NUM"))
    /\ Precedes(Accesses("w", "QUEUE_NUM"), Accesses("w", "QUEUE_ALIGN"))
    /\ Precedes(Accesses("w", "QUEUE_ALIGN"), Accesses("w", "QUEUE_PFN"))
    /\ Precedes(Accesses("w", "QUEUE_PFN"), StatusSet(VIRTIO_STATUS_DRIVER_OK))
    /\ Precedes(StatusSet(VIRTIO_STATUS_DRIVER_OK), Accesses("r", "DEVICE_CONFIG"))
\* virtio_blk_init has run to its end: the checks, the reset, the status
\* bits, the queue registers and the capacity read
C18_Witness ==
    /\ InitDone
    /\ mmio[4] = Access("w", "DEVICE_STATUS", 0)
    /\ Accesses("r", "DEVICE_CONFIG") /= {}
    /\ StatusSet(VIRTIO_STATUS_DRIVER_OK) /= {}

(***************************************************************************)
(* virtq_kick and the device (SpecVq).                                     *)
(***************************************************************************)
\* the device sees an available index ahead of what it has served
DeviceSeesNewIndex == devmem.avail_index /= virtio.used_index

\* C16: the barrier separates the ring-slot write from the index
\* increment, so a device reading the rings concurrently never observes
\* the incremented avail.index before the ring entry of that request is
\* visible to it.
C16_RingVisibleBeforeIndex ==
    /\ DeviceSeesNewIndex => "avail_ring" \notin pending
    /\ rwd.pc = "index" => "avail_ring" \notin pending
\* the incremented index has reached the device, the ring entry has not
C16_Divergence ==
    /\ rwd.pc = "fence"
    /\ devmem.avail_index = virtio.avail_index
    /\ DeviceSeesNewIndex
    /\ "avail_ring" \in pending

\* C17: the fence comes after the updates of avail.ring and avail.index
\* and before the QUEUE_NOTIFY write: while a notification is with the
\* device, the device sees the ring entry, the incremented index, the
\* descriptors and the request as the driver stored them.
C17_AllVisibleAtNotify ==
    virtio.notify > 0 =>
        /\ pending = {}
        /\ devmem = DeviceView(virtio)
        /\ devmem.avail_index = (virtio.used_index + 1) % U16
\* the notification of a write request is with the device
C17_Witness ==
    /\ virtio.notify > 0
    /\ rwd.pc \in {"last_used", "wait"}
    /\ rwd.is_write
    /\ devmem.req.type = VIRTIO_BLK_T_OUT /\ devmem.req.sector = rwd.sector
    /\ devmem.descs[1].flags = VIRTQ_DESC_F_NEXT

\* C20: at every return from read_write_disk, and so at every entry and
\* while it rewrites the request and the descriptors, no request is
\* outstanding: last_used_index = used.index = avail.index as 16-bit
\* values, after skipped out-of-range calls and across the wraparound.
C20_NoRequestOutstanding ==
    rwd.pc \in {"idle", "descs", "ring"} =>
        /\ virtio.last_used_index = virtio.used_index
        /\ virtio.used_index = virtio.avail_index
        /\ virtio.notify = 0
        /\ virtio.avail_index \in 0 .. U16 - 1
\* a call has returned after the indices wrapped to 0, the call before it
\* having been skipped
C20_Witness ==
    /\ rwd.pc = "idle"
    /\ Len(calls) = 2 /\ calls[1].res = "range" /\ calls[2].res = "ok"
    /\ virtio.avail_index = 0 /\ virtio.last_used_index = 0

(***************************************************************************)
(* The busy-wait of read_write_disk (SpecDiskLive).                        *)
(***************************************************************************)
\* C19: for an in-range sector read_write_disk returns, the device serving
\* every request it is notified of; and for as long as the device does not
\* advance used.index the call stays in its busy-wait: it does not return,
\* does not yield, and no process runs.
C19_ReturnsIffDeviceServes ==
    /\ (rwd.pc = "wait") ~> (rwd.pc = "idle")
    /\ [][(rwd.pc = "wait" /\ virtq_is_busy(virtio)
           /\ virtio'.used_index = virtio.used_index)
          => (rwd'.pc = "wait" /\ UNCHANGED <<callerVars, procVars, csrVars, ctxVars>>)]_vars
\* a call is in its busy-wait, the device not having served it yet
C19_Witness ==
    /\ rwd.pc = "wait" /\ ~rwd_out_of_range(rwd.sector)
    /\ virtq_is_busy(virtio)
    /\ Len(calls) > 0

(***************************************************************************)
(* The idle process.                                                       *)
(***************************************************************************)
\* the address of the frame switch_context pushes in kernel_main's yield
BootFrame == BootStackTop - YieldDepth - WORD * SWITCH_FRAME_WORDS

\* C21: when the last RUNNABLE user process calls SYS_EXIT, yield switches
\* to the idle process; the saved context of the idle process is the one
\* the first yield of kernel_main stored, so it resumes in kernel_main
\* after that yield and the kernel halts with PANIC("switched to idle
\* process"); the idle process never enters user mode, and no step is
\* taken after the PANIC.
C21_IdleResumesInKernelMain ==
    /\ [](idle_proc /= NULL =>
            /\ kpc[idle_proc] \in {"kernel_main", "main_yield"}
            /\ upc[idle_proc] = 0
            /\ kpc[idle_proc] = "main_yield" =>
                  /\ procs[idle_proc].sp = BootFrame
                  /\ RetTarget(idle_proc) = "yield")
    /\ [][\A p \in Slots :
            ExitYieldStep(p) /\ RunnableUsers(procs') = {}
              => current_proc' = idle_proc /\ halted' = ""]_vars
    /\ [][(halted = "" /\ kmain = "yielded" /\ current_proc = idle_proc)
            => (halted' = "switched to idle process"
                /\ UNCHANGED <<procVars, csrVars, ctxVars>>)]_vars
    /\ [][halted /= "switched to idle process"]_vars
\* every user process has exited and kernel_main has halted
C21_Witness ==
    /\ halted = "switched to idle process"
    /\ current_proc = idle_proc /\ kpc[idle_proc] = "main_yield"
    /\ UserSlots /= {}
    /\ \A p \in UserSlots : procs[p].state = PROC_EXITED /\ kpc[p] = "exit"

(***************************************************************************)
(* The lengths of the file system calls (SpecFs).                          *)
(***************************************************************************)
\* process p is in handle_syscall with a SYS_READFILE or SYS_WRITEFILE on
\* the file in slot k
FileCallOn(p, k) ==
    /\ Running(p, "trap") /\ scause = SCAUSE_ECALL
    /\ frame[p].a3 \in {SYS_READFILE, SYS_WRITEFILE}
    /\ fs_lookup(files, UserStrings[frame[p].a0]) = k

\* C22: whatever len the SYS_READFILE and SYS_WRITEFILE calls pass, as a
\* signed int, negative or above the capacity of a slot, every file keeps
\* 0 <= size <= sizeof(data) and every memcpy on a file's data is passed a
\* byte count in 0..sizeof(data).
C22_LenWithinData ==
    /\ \A k \in FileSlots : files[k].size \in 0 .. FILE_DATA_SIZE
    /\ \A p \in Slots, k \in FileSlots :
         FileCallOn(p, k) => file_len(frame[p].a2, files[k]) \in 0 .. FILE_DATA_SIZE
\* a SYS_WRITEFILE with a negative len has reached its memcpy, which ran
\* over the file table until it faulted
C22_Divergence ==
    \E p \in Slots :
        /\ halted = "unexpected trap" /\ current_proc = p /\ kpc[p] = "trap"
        /\ frame[p].a3 = SYS_WRITEFILE /\ frame[p].a2 < 0
        /\ \E k \in FileSlots : files[k].size \notin 0 .. FILE_DATA_SIZE
====
